---- MODULE Spec2Model ----
(***************************************************************************)
(* A model of en/convert-epub.py: the navigation flattener                 *)
(* extract_md_files, the asset discovery find_asset_dirs and the pipeline  *)
(* of main (load the configuration, flatten, discover, build the command,  *)
(* run the external tool, clean up).                                       *)
(*                                                                         *)
(* Python strings are sequences of one-character strings, so that the      *)
(* path functions of os.path, str.endswith, str.replace, sorted and        *)
(* str.join act on characters as they do in Python.                        *)
(***************************************************************************)
EXTENDS Integers, Sequences, FiniteSets, TLC

VARIABLES pc, fs, config, nav, md_files, md_files_prefixed, root, asset_dirs,
          base_dirs, resource_path, cmd, tool_runs, result, stdout, stderr,
          rmtree_calls, exit_status, stack, extract_calls

vars == <<pc, fs, config, nav, md_files, md_files_prefixed, root, asset_dirs,
          base_dirs, resource_path, cmd, tool_runs, result, stdout, stderr,
          rmtree_calls, exit_status, stack, extract_calls>>

----------------------------------------------------------------------------
(* Characters and strings *)

\* The characters the model uses, in code point order (Python compares
\* strings by code point).
Alphabet == <<"-", ".", "/", "0", "1", "2", "3", "4", "5", "6", "7", "8",
              "9", ":", "\\", "a", "b", "c", "d", "e", "f", "g",
              "h", "i", "j", "k", "l", "m", "n", "o", "p", "q", "r", "s", "t",
              "u", "v", "w", "x", "y", "z">>

Ord(c) == CHOOSE i \in 1..Len(Alphabet) : Alphabet[i] = c

\* a < b for Python strings
StrLess(a, b) ==
    \E i \in 1..(Len(b)) :
        /\ \A j \in 1..(i - 1) : j <= Len(a) /\ a[j] = b[j]
        /\ \/ i = Len(a) + 1
           \/ i <= Len(a) /\ Ord(a[i]) < Ord(b[i])

\* s.startswith(p), s.endswith(p)
StartsWith(s, p) == Len(p) <= Len(s) /\ SubSeq(s, 1, Len(p)) = p
EndsWith(s, p) == Len(p) <= Len(s) /\ SubSeq(s, Len(s) - Len(p) + 1, Len(s)) = p

\* s.replace("\\", "/")
ReplaceBackslash(s) == [i \in 1..Len(s) |-> IF s[i] = "\\" THEN "/" ELSE s[i]]

\* s.split("/")
RECURSIVE SplitSlash(_)
SplitSlash(s) ==
    IF \A i \in 1..Len(s) : s[i] # "/" THEN <<s>>
    ELSE LET k == CHOOSE i \in 1..Len(s) :
                      s[i] = "/" /\ \A j \in 1..(i - 1) : s[j] # "/"
         IN  <<SubSeq(s, 1, k - 1)>> \o SplitSlash(SubSeq(s, k + 1, Len(s)))

\* sep.join(parts)
RECURSIVE JoinWith(_, _)
JoinWith(sep, parts) ==
    IF parts = <<>> THEN <<>>
    ELSE IF Len(parts) = 1 THEN parts[1]
    ELSE parts[1] \o sep \o JoinWith(sep, Tail(parts))

\* sorted(S) for a set of strings
RECURSIVE Sorted(_)
Sorted(S) ==
    IF S = {} THEN <<>>
    ELSE LET m == CHOOSE x \in S : \A y \in S \ {x} : StrLess(x, y)
         IN  <<m>> \o Sorted(S \ {m})

\* set(seq)
ToSet(seq) == {seq[i] : i \in 1..Len(seq)}

----------------------------------------------------------------------------
(* os.path (posixpath) *)

Sep == <<"/">>
CurDir == <<".">>
ParDir == <<".", ".">>

\* os.path.join(a, b)
PathJoin(a, b) ==
    IF StartsWith(b, Sep) THEN b
    ELSE IF a = <<>> \/ EndsWith(a, Sep) THEN a \o b
    ELSE a \o Sep \o b

\* p.rstrip("/")
RECURSIVE RStripSlash(_)
RStripSlash(p) ==
    IF p # <<>> /\ p[Len(p)] = "/" THEN RStripSlash(SubSeq(p, 1, Len(p) - 1))
    ELSE p

\* os.path.dirname(p)
DirName(p) ==
    LET slashes == {i \in 1..Len(p) : p[i] = "/"}
        i == IF slashes = {} THEN 0
             ELSE CHOOSE k \in slashes : \A j \in slashes : j <= k
        head == SubSeq(p, 1, i)
    IN  IF head # <<>> /\ \E j \in 1..Len(head) : head[j] # "/"
        THEN RStripSlash(head)
        ELSE head

\* the component loop of os.path.normpath
RECURSIVE NormComps(_, _, _)
NormComps(comps, new_comps, initial_slashes) ==
    IF comps = <<>> THEN new_comps
    ELSE LET comp == Head(comps)
             rest == Tail(comps)
         IN  IF comp = <<>> \/ comp = CurDir
             THEN NormComps(rest, new_comps, initial_slashes)
             ELSE IF \/ comp # ParDir
                     \/ (~initial_slashes /\ new_comps = <<>>)
                     \/ (new_comps # <<>> /\ new_comps[Len(new_comps)] = ParDir)
             THEN NormComps(rest, Append(new_comps, comp), initial_slashes)
             ELSE IF new_comps # <<>>
             THEN NormComps(rest, SubSeq(new_comps, 1, Len(new_comps) - 1),
                            initial_slashes)
             ELSE NormComps(rest, new_comps, initial_slashes)

\* os.path.normpath(path), for paths that do not start with exactly two slashes
NormPath(path) ==
    IF path = <<>> THEN CurDir
    ELSE LET initial_slashes == StartsWith(path, Sep)
             comps == NormComps(SplitSlash(path), <<>>, initial_slashes)
             joined == JoinWith(Sep, comps)
             p == IF initial_slashes THEN Sep \o joined ELSE joined
         IN  IF p = <<>> THEN CurDir ELSE p

\* The working directory of the process (the script is run in en/).
Cwd == <<"/", "e", "n">>

\* os.path.abspath(path)
AbsPath(path) == NormPath(PathJoin(Cwd, path))

\* [x for x in p.split("/") if x]
Components(p) == SelectSeq(SplitSlash(p), LAMBDA x : x # <<>>)

\* len(os.path.commonprefix([a, b])) for two component lists
CommonLen(a, b) ==
    CHOOSE i \in 0..Len(a) :
        /\ i <= Len(b)
        /\ \A j \in 1..i : a[j] = b[j]
        /\ (i < Len(a) /\ i < Len(b)) => a[i + 1] # b[i + 1]

RECURSIVE PathJoinAll(_)
PathJoinAll(parts) ==
    IF Len(parts) = 1 THEN parts[1]
    ELSE PathJoin(PathJoinAll(SubSeq(parts, 1, Len(parts) - 1)), parts[Len(parts)])

\* os.path.relpath(path, start), for a non-empty path
RelPath(path, start) ==
    LET start_list == Components(AbsPath(start))
        path_list == Components(AbsPath(path))
        i == CommonLen(start_list, path_list)
        rel_list == [k \in 1..(Len(start_list) - i) |-> ParDir]
                    \o SubSeq(path_list, i + 1, Len(path_list))
    IN  IF rel_list = <<>> THEN CurDir ELSE PathJoinAll(rel_list)

----------------------------------------------------------------------------
(* The filesystem: the directories and the regular files that exist, each   *)
(* named by its normalised absolute path.  There are no symbolic links.     *)

MkFs(dirs, files) == [dirs |-> dirs \cup {Sep}, files |-> files]

\* os.path.exists(p)
Exists(p) ==
    IF p = <<>> THEN FALSE
    ELSE IF EndsWith(p, Sep) THEN AbsPath(p) \in fs.dirs
    ELSE AbsPath(p) \in fs.dirs \cup fs.files

\* the last component of a normalised absolute path
BaseName(e) == LET comps == Components(e) IN comps[Len(comps)]

\* the names of the subdirectories of directory top, as os.scandir lists them
SubDirNames(top) ==
    {BaseName(e) : e \in {d \in fs.dirs : d # Sep /\ DirName(d) = AbsPath(top)}}

\* os.walk(top): the pairs (dirpath, d) with d in dirnames.  A top that is
\* not a directory yields nothing (os.walk ignores the scandir error).
RECURSIVE WalkPairs(_)
WalkPairs(top) ==
    IF AbsPath(top) \notin fs.dirs THEN {}
    ELSE {<<top, d>> : d \in SubDirNames(top)}
         \cup UNION {WalkPairs(PathJoin(top, d)) : d \in SubDirNames(top)}

----------------------------------------------------------------------------
(* Navigation values, as yaml.safe_load builds them.  A value is held as   *)
(* its table of nodes (the objects of the Python heap), in depth-first     *)
(* left-to-right order: node 1 is the value itself and kids are the        *)
(* numbers of a list's elements or of a mapping's values, in iteration     *)
(* order.  The field depth (the nesting depth of the node) is not read by  *)
(* the program; it is there to state properties.                           *)

Str(s) == [t |-> "str", s |-> s, keys |-> <<>>, items |-> <<>>]
List(items) == [t |-> "list", s |-> <<>>, keys |-> <<>>, items |-> items]
Dict(keys, items) == [t |-> "dict", s |-> <<>>, keys |-> keys, items |-> items]
\* a value that is neither a string, a list nor a dict (a number, None)
Other == [t |-> "other", s |-> <<>>, keys |-> <<>>, items |-> <<>>]

Node(t, s, keys, kids, depth) ==
    [t |-> t, s |-> s, keys |-> keys, kids |-> kids, depth |-> depth]

\* the node table of value v, its first node numbered id, at nesting depth
\* depth; and of the values vs one after the other
RECURSIVE Nodes(_, _, _)
RECURSIVE NodesOfSeq(_, _, _)
Nodes(v, id, depth) ==
    LET sub == NodesOfSeq(v.items, id + 1, depth + 1)
    IN  <<Node(v.t, v.s, v.keys, sub.kids, depth)>> \o sub.nodes

NodesOfSeq(vs, id, depth) ==
    IF vs = <<>> THEN [nodes |-> <<>>, kids |-> <<>>]
    ELSE LET first == Nodes(Head(vs), id, depth)
             rest == NodesOfSeq(Tail(vs), id + Len(first), depth)
         IN  [nodes |-> first \o rest.nodes, kids |-> <<id>> \o rest.kids]

\* the value v inside k nested single-element lists
Wrap(v, k) ==
    [i \in 1..k |-> Node("list", <<>>, <<>>, <<i + 1>>, i - 1)]
    \o Nodes(v, k + 1, k)

Heap(v) == Wrap(v, 0)

----------------------------------------------------------------------------
(* extract_md_files *)

Docs == <<"d", "o", "c", "s">>

\* the depth limit of extract_md_files
MaxDepth == 100

MissingWarning(path) == [kind |-> "missing", path |-> path]
RecursionWarning == [kind |-> "recursion", path |-> <<>>]

\* One invocation extract_md_files(item, depth): the node of item, the
\* files list, the loop index, and whether the body has begun.
Frame(node, depth) ==
    [node |-> node, depth |-> depth, i |-> 1, files |-> <<>>, phase |-> "entry"]

Top == stack[Len(stack)]

\* "if depth > 100"
DepthExceededOffByOne(depth) == depth >= MaxDepth
DepthExceeded(depth) == depth > MaxDepth

\* what the string case returns: "[item]" when the path exists, else "[]"
StrFilesUnchecked(s, path) == <<s>>
StrFiles(s, path) == IF Exists(path) THEN <<s>> ELSE <<>>

\* "files += extract_md_files(sub, depth + 1)" in the caller
AccumulateInFront(files, returned) == returned \o files
Accumulate(files, returned) == files \o returned

\* "return v": the caller's loop takes the value, or main does
Return(v) ==
    IF Len(stack) = 1
    THEN /\ md_files' = v
         /\ stack' = <<>>
         /\ pc' = "prefix"
    ELSE /\ stack' = [SubSeq(stack, 1, Len(stack) - 1) EXCEPT
                          ![Len(stack) - 1].files = Accumulate(@, v),
                          ![Len(stack) - 1].i = @ + 1]
         /\ UNCHANGED <<pc, md_files>>

UnchangedByExtract ==
    UNCHANGED <<fs, config, nav, md_files_prefixed, root, asset_dirs,
                base_dirs, resource_path, cmd, tool_runs, result, stdout,
                rmtree_calls, exit_status>>

\* an invocation at its first statement
Entered ==
    /\ pc = "extract"
    /\ stack # <<>>
    /\ Top.phase = "entry"

\* lines 37-39: beyond the depth limit, warn and return []
ExtractDepthExceeded ==
    /\ Entered
    /\ DepthExceeded(Top.depth)
    /\ extract_calls' = extract_calls + 1
    /\ stderr' = Append(stderr, RecursionWarning)
    /\ Return(<<>>)
    /\ UnchangedByExtract

\* lines 40-45: a string is returned if its path exists, else warned about
ExtractString ==
    /\ Entered
    /\ ~DepthExceeded(Top.depth)
    /\ nav[Top.node].t = "str"
    /\ extract_calls' = extract_calls + 1
    /\ LET path == PathJoin(Docs, nav[Top.node].s)
       IN  /\ stderr' = IF Exists(path) THEN stderr
                        ELSE Append(stderr, MissingWarning(path))
           /\ Return(StrFiles(nav[Top.node].s, path))
    /\ UnchangedByExtract

\* line 46: "files = []", for every value that is not a string
ExtractBegin ==
    /\ Entered
    /\ ~DepthExceeded(Top.depth)
    /\ nav[Top.node].t # "str"
    /\ extract_calls' = extract_calls + 1
    /\ stack' = [stack EXCEPT ![Len(stack)].phase = "loop"]
    /\ UNCHANGED <<pc, md_files, stderr>>
    /\ UnchangedByExtract

\* the elements a list or a dict is iterated over; nothing for other types
Iterated(item) == IF item.t \in {"list", "dict"} THEN item.kids ELSE <<>>

\* lines 48-49 and 51-52: the recursive call on the next element or value
ExtractIterate ==
    /\ pc = "extract"
    /\ stack # <<>>
    /\ Top.phase = "loop"
    /\ Top.i <= Len(Iterated(nav[Top.node]))
    /\ stack' = Append(stack, Frame(Iterated(nav[Top.node])[Top.i], Top.depth + 1))
    /\ UNCHANGED <<pc, fs, config, nav, md_files, md_files_prefixed, root,
                   asset_dirs, base_dirs, resource_path, cmd, tool_runs, result,
                   stdout, stderr, rmtree_calls, exit_status, extract_calls>>

\* line 53: "return files"
ExtractFinish ==
    /\ pc = "extract"
    /\ stack # <<>>
    /\ Top.phase = "loop"
    /\ Top.i > Len(Iterated(nav[Top.node]))
    /\ Return(Top.files)
    /\ UNCHANGED <<fs, config, nav, md_files_prefixed, root, asset_dirs,
                   base_dirs, resource_path, cmd, tool_runs, result, stdout,
                   stderr, rmtree_calls, exit_status, extract_calls>>

----------------------------------------------------------------------------
(* Inputs of the flattener *)

AMd == <<"a", ".", "m", "d">>
BMd == <<"b", ".", "m", "d">>
IntroMd == <<"i", "n", "t", "r", "o", ".", "m", "d">>
AbsXMd == <<"/", "x", ".", "m", "d">>
EnDir == Cwd
DocsDir == Cwd \o Sep \o Docs

\* the largest number of nodes of an enumerated navigation value
MaxNodes == 4
\* how far beyond the depth limit the longest chain of nested lists goes
ChainExtra == 50

\* the i-th key of an enumerated mapping; the first is the name of a file
Key(i) == IF i = 1 THEN AMd ELSE [j \in 1..i |-> "k"]
Keys(n) == [i \in 1..n |-> Key(i)]

LeafValues == {Str(AMd), Str(BMd), Str(<<>>), Str(AbsXMd), Other}

\* the navigation values of exactly n nodes, and the sequences of
\* navigation values of n nodes in all
RECURSIVE NavOfSize(_)
RECURSIVE NavSeqOfSize(_)
NavOfSize(n) ==
    IF n = 1 THEN LeafValues \cup {List(<<>>), Dict(<<>>, <<>>)}
    ELSE {List(f) : f \in NavSeqOfSize(n - 1)}
         \cup {Dict(Keys(Len(f)), f) : f \in NavSeqOfSize(n - 1)}

NavSeqOfSize(n) ==
    IF n = 0 THEN {<<>>}
    ELSE UNION {{<<t>> \o f : t \in NavOfSize(k), f \in NavSeqOfSize(n - k)} :
                k \in 1..n}

\* the example of the specification:
\* ["intro.md", {"Part 1": ["a.md", "b.md"]}]
ExampleNav ==
    List(<<Str(IntroMd),
           Dict(<<<<"P", "a", "r", "t", " ", "1">>>>,
                <<List(<<Str(AMd), Str(BMd)>>)>>)>>)

\* chains of nested lists that end just below, at and beyond the depth limit
DeepWraps == {MaxDepth - 1, MaxDepth, MaxDepth + 1, MaxDepth + ChainExtra}

NavInputs ==
    {Heap(v) : v \in UNION {NavOfSize(n) : n \in 1..MaxNodes}}
    \cup {Heap(ExampleNav)}
    \cup {Wrap(v, k) : v \in NavOfSize(1) \cup NavOfSize(2), k \in DeepWraps}

\* docs/ holds intro.md and a.md, and /x.md exists; docs/ holds a.md and
\* b.md; there is no docs/ at all
ExtractFsInputs ==
    {MkFs({EnDir, DocsDir},
          {DocsDir \o Sep \o AMd, DocsDir \o Sep \o IntroMd, AbsXMd}),
     MkFs({EnDir, DocsDir}, {DocsDir \o Sep \o AMd, DocsDir \o Sep \o BMd}),
     MkFs({EnDir}, {})}

----------------------------------------------------------------------------
(* The flattener alone: extract_md_files(nav) on every input *)

NoConfig == [kind |-> "mapping", has_nav |-> FALSE, nav |-> <<>>]

NoResult == [outcome |-> "none", returncode |-> 0, stdout |-> <<>>,
             stderr |-> <<>>, media_after |-> FALSE]

InitExtract ==
    /\ pc = "extract"
    /\ fs \in ExtractFsInputs
    /\ nav \in NavInputs
    /\ stack = <<Frame(1, 0)>>
    /\ md_files = <<>>
    /\ stderr = <<>>
    /\ extract_calls = 0
    /\ config = NoConfig
    /\ md_files_prefixed = <<>>
    /\ root = <<>>
    /\ asset_dirs = <<>>
    /\ base_dirs = <<>>
    /\ resource_path = <<>>
    /\ cmd = <<>>
    /\ tool_runs = 0
    /\ result = NoResult
    /\ stdout = <<>>
    /\ rmtree_calls = 0
    /\ exit_status = 0

NextExtract ==
    \/ ExtractDepthExceeded
    \/ ExtractString
    \/ ExtractBegin
    \/ ExtractIterate
    \/ ExtractFinish

SpecExtract == InitExtract /\ [][NextExtract]_vars

----------------------------------------------------------------------------
(* Properties of the flattener *)

Returned == pc = "prefix"

\* The node table is a tree in depth-first order with the depths it states.
NavWellFormed ==
    extract_calls = 0 =>
    /\ nav[1].depth = 0
    /\ \A i \in 2..Len(nav) :
           Cardinality({p \in 1..Len(nav) :
                            \E k \in 1..Len(nav[p].kids) : nav[p].kids[k] = i}) = 1
    /\ \A p \in 1..Len(nav) :
           /\ nav[p].t \notin {"list", "dict"} => nav[p].kids = <<>>
           /\ \A k \in 1..Len(nav[p].kids) :
                  LET c == nav[p].kids[k]
                      \* the node after the last descendant of c
                      after == CHOOSE j \in (c + 1)..(Len(nav) + 1) :
                                   /\ \A m \in (c + 1)..(j - 1) :
                                          nav[m].depth > nav[c].depth
                                   /\ j <= Len(nav) => nav[j].depth <= nav[c].depth
                  IN  /\ c \in (p + 1)..Len(nav)
                      /\ nav[c].depth = nav[p].depth + 1
                      /\ k = 1 => c = p + 1
                      /\ k < Len(nav[p].kids) => nav[p].kids[k + 1] = after

\* the file a string leaf stands for exists: the leaf is resolved against
\* the documents root
LeafPath(s) == IF StartsWith(s, Sep) THEN s ELSE Docs \o Sep \o s
LeafExists(s) == Exists(LeafPath(s))

\* the string leaves, in depth-first left-to-right order, that satisfy Keep
LeavesInOrder(Keep(_)) ==
    SelectSeq([i \in 1..Len(nav) |-> i],
              LAMBDA i : nav[i].t = "str" /\ Keep(i))

LeafStrings(ids) == [k \in 1..Len(ids) |-> nav[ids[k]].s]

\* whether every node is at depth at most d
NestingAtMost(d) == \A i \in 1..Len(nav) : nav[i].depth <= d

\* C1: for a navigation value of nesting depth at most 100,
\* extract_md_files(nav) is exactly the sequence of the string leaves whose
\* file exists, in depth-first left-to-right order (keys are never emitted,
\* other values contribute nothing).
C1_DepthFirstExistingLeaves ==
    (Returned /\ NestingAtMost(MaxDepth)) =>
        md_files = LeafStrings(LeavesInOrder(LAMBDA i : LeafExists(nav[i].s)))

\* the example of the specification returns exactly ["intro.md", "a.md"]
C1_Witness ==
    /\ Returned
    /\ nav = Heap(ExampleNav)
    /\ LeafExists(IntroMd) /\ LeafExists(AMd) /\ ~LeafExists(BMd)
    /\ md_files = <<IntroMd, AMd>>

AbsentLeaves(maxdepth) ==
    LeavesInOrder(LAMBDA i : ~LeafExists(nav[i].s) /\ nav[i].depth <= maxdepth)

\* C2 as claimed: no absent leaf is in the output, and the number of
\* warnings emitted equals the number of absent string leaf occurrences
\* visited (the nodes deeper than MaxDepth + 1 are never visited).
C2_AsClaimed ==
    Returned =>
        /\ \A k \in 1..Len(md_files) : LeafExists(md_files[k])
        /\ Len(stderr) = Len(AbsentLeaves(MaxDepth + 1))

MissingWarnings == SelectSeq(stderr, LAMBDA w : w.kind = "missing")

\* C2, amended: no absent leaf is in the output, and the missing-file
\* warnings are exactly one for each absent string leaf occurrence at depth
\* at most 100, in order, each naming the leaf's path.
C2_OneMissingWarningPerAbsentLeaf ==
    Returned =>
        /\ \A k \in 1..Len(md_files) : LeafExists(md_files[k])
        /\ LET absent == AbsentLeaves(MaxDepth)
           IN  MissingWarnings =
                   [k \in 1..Len(absent) |->
                        MissingWarning(LeafPath(nav[absent[k]].s))]

C2_Witness ==
    /\ Returned
    /\ Len(AbsentLeaves(MaxDepth)) >= 2
    /\ Len(MissingWarnings) >= 2
    /\ md_files # <<>>

\* C3: extract_md_files terminates (the recursion is never deeper than 101,
\* each node is invoked at most once and only at depth at most 101, and
\* before the function returns some invocation can always take its next
\* step: it is at its first statement, or in its loop, or at its return);
\* every node reached at depth greater than 100 contributes nothing and one
\* warning, whatever its type, and the nodes at depth at most 100 are
\* processed normally.
C3_DepthGuard ==
    /\ pc = "extract" =>
        /\ Entered \/ ENABLED ExtractIterate \/ ENABLED ExtractFinish
        /\ Len(stack) <= MaxDepth + 2
        /\ \A k \in 1..Len(stack) : stack[k].depth = k - 1
    /\ extract_calls <=
           Cardinality({i \in 1..Len(nav) : nav[i].depth <= MaxDepth + 1})
    /\ Returned =>
        /\ Len(SelectSeq(stderr, LAMBDA w : w.kind = "recursion")) =
               Cardinality({i \in 1..Len(nav) : nav[i].depth = MaxDepth + 1})
        /\ md_files =
               LeafStrings(LeavesInOrder(
                   LAMBDA i : LeafExists(nav[i].s) /\ nav[i].depth <= MaxDepth))

\* 150 nested single-element lists around an existing file: an empty list
\* and one warning
C3_Witness ==
    /\ Returned
    /\ nav = Wrap(Str(AMd), MaxDepth + ChainExtra)
    /\ LeafExists(AMd)
    /\ md_files = <<>>
    /\ stderr = <<RecursionWarning>>

----------------------------------------------------------------------------
(* find_asset_dirs *)

AssetsSuffix == <<".", "a", "s", "s", "e", "t", "s">>

\* "if d.endswith('.assets')"
IsAssetDirAnyAssets(d) == EndsWith(d, Tail(AssetsSuffix))
IsAssetDir(d) == EndsWith(d, AssetsSuffix)

\* lines 61-70: the four paths recorded for directory d found in dirpath
AssetVariants(dirpath, d, r) ==
    LET full_path == ReplaceBackslash(PathJoin(dirpath, d))
        rel_path == ReplaceBackslash(RelPath(full_path, r))
    IN  {full_path,
         ReplaceBackslash(DirName(full_path)),
         rel_path,
         ReplaceBackslash(PathJoin(Docs, rel_path))}

\* the set asset_dirs built by the loops of find_asset_dirs(r)
AssetDirSet(r) ==
    UNION {AssetVariants(w[1], w[2], r) :
               w \in {x \in WalkPairs(r) : IsAssetDir(x[2])}}

\* the largest set of which every order is tried
MaxPermSize == 3

RECURSIVE Perms(_)
Perms(S) ==
    IF S = {} THEN {<<>>}
    ELSE UNION {{<<x>> \o q : q \in Perms(S \ {x})} : x \in S}

Reverse(q) == [i \in 1..Len(q) |-> q[Len(q) + 1 - i]]
Rotations(q) ==
    {SubSeq(q, k, Len(q)) \o SubSeq(q, 1, k - 1) : k \in 1..Len(q)}

\* list(S): the elements of a set in an order the program does not choose.
\* Every order of a small set; of a larger one the rotations of the sorted
\* order and of its reverse.
ListOrders(S) ==
    IF Cardinality(S) <= MaxPermSize THEN Perms(S)
    ELSE Rotations(Sorted(S)) \cup Rotations(Reverse(Sorted(S)))

\* find_asset_dirs(r): the lists it may return
find_asset_dirs(r) == ListOrders(AssetDirSet(r))

----------------------------------------------------------------------------
(* The asset discovery alone: find_asset_dirs(root) on every input *)

Ch1Assets == <<"c", "h", "1">> \o AssetsSuffix
Ch2Assets == <<"c", "h", "2">> \o AssetsSuffix
XAssets == <<"x">> \o AssetsSuffix
BackslashAssets == <<"b", "\\", "c">> \o AssetsSuffix
Sub == <<"s", "u", "b">>
Img == <<"i", "m", "g">>
Assets == Tail(AssetsSuffix)

Under(dir, name) == dir \o Sep \o name

\* the directories there may be under docs/: ch1.assets, sub/ch2.assets
\* (the example of the specification), an asset directory inside an asset
\* directory, one with a backslash in its name, and two that do not match
DocsSubDirs ==
    {Under(DocsDir, Ch1Assets),
     Under(Under(DocsDir, Ch1Assets), XAssets),
     Under(DocsDir, Sub),
     Under(Under(DocsDir, Sub), Ch2Assets),
     Under(Under(DocsDir, Sub), Img),
     Under(DocsDir, Assets),
     Under(DocsDir, BackslashAssets)}

\* the sets of directories closed under "parent"
DocsTrees ==
    {T \in SUBSET DocsSubDirs :
         \A e \in T : DirName(e) = DocsDir \/ DirName(e) \in T}

AssetFsInputs ==
    {MkFs({EnDir, DocsDir} \cup T, {}) : T \in DocsTrees}
    \cup {MkFs({EnDir}, {})}

\* the root as main passes it, with a leading "./", and absolute
RootInputs == {Docs, <<".", "/">> \o Docs, DocsDir}

InitAssets ==
    /\ pc = "call_find_asset_dirs"
    /\ fs \in AssetFsInputs
    /\ root \in RootInputs
    /\ asset_dirs = <<>>
    /\ nav = Heap(List(<<>>))
    /\ stack = <<>>
    /\ md_files = <<>>
    /\ stderr = <<>>
    /\ extract_calls = 0
    /\ config = NoConfig
    /\ md_files_prefixed = <<>>
    /\ base_dirs = <<>>
    /\ resource_path = <<>>
    /\ cmd = <<>>
    /\ tool_runs = 0
    /\ result = NoResult
    /\ stdout = <<>>
    /\ rmtree_calls = 0
    /\ exit_status = 0

CallFindAssetDirs ==
    /\ pc = "call_find_asset_dirs"
    /\ asset_dirs' \in find_asset_dirs(root)
    /\ pc' = "found_asset_dirs"
    /\ UNCHANGED <<fs, config, nav, md_files, md_files_prefixed, root,
                   base_dirs, resource_path, cmd, tool_runs, result, stdout,
                   stderr, rmtree_calls, exit_status, stack, extract_calls>>

NextAssets == CallFindAssetDirs

SpecAssets == InitAssets /\ [][NextAssets]_vars

----------------------------------------------------------------------------
(* Properties of the asset discovery *)

Found == pc = "found_asset_dirs"

\* the directories at any depth under the root whose name ends with
\* ".assets", each by its absolute path
MatchingDirs ==
    {e \in fs.dirs : /\ StartsWith(e, AbsPath(root) \o Sep)
                     /\ EndsWith(BaseName(e), AssetsSuffix)}

\* the path of directory e relative to the root, and joined to the root as
\* it was passed
RelativeToRoot(e) == SubSeq(e, Len(AbsPath(root)) + 2, Len(e))
JoinedToRoot(e) == root \o Sep \o RelativeToRoot(e)

\* p without its last component
ParentText(p) ==
    LET last == CHOOSE k \in 1..Len(p) :
                    p[k] = "/" /\ \A j \in (k + 1)..Len(p) : p[j] # "/"
    IN  SubSeq(p, 1, last - 1)

\* the four variants of matching directory e: its path joined to the root
\* with the backslashes replaced, the parent of that, its path relative to
\* the root with the backslashes replaced, and that prefixed with "docs"
VariantsOf(e) ==
    LET joined == ReplaceBackslash(JoinedToRoot(e))
        rel == ReplaceBackslash(RelativeToRoot(e))
    IN  [joined |-> joined, parent |-> ParentText(joined), rel |-> rel,
         docsrel |-> Docs \o Sep \o rel]

NoDuplicates(q) == \A i, j \in 1..Len(q) : q[i] = q[j] => i = j

\* C4 as claimed: for every matching directory the result contains its
\* absolute path, its path relative to the root and that path prefixed with
\* "docs"; the result has no duplicates and nothing but variants of matching
\* directories.
C4_AsClaimed ==
    Found =>
        /\ \A e \in MatchingDirs :
               /\ e \in ToSet(asset_dirs)
               /\ RelativeToRoot(e) \in ToSet(asset_dirs)
               /\ Docs \o Sep \o RelativeToRoot(e) \in ToSet(asset_dirs)
        /\ NoDuplicates(asset_dirs)
        /\ \A x \in ToSet(asset_dirs) :
               \E e \in MatchingDirs :
                   LET v == VariantsOf(e)
                   IN  x \in {v.joined, v.parent, v.rel, v.docsrel}

\* C4, amended: for every matching directory the result contains its path
\* joined to the root as passed (absolute only if the root is), the rest of
\* that path after the root, and that rest prefixed with "docs", each with
\* backslashes replaced by "/"; the result has no duplicates and nothing
\* but the four variants of matching directories.
C4_VariantsOfMatchingDirs ==
    Found =>
        /\ \A e \in MatchingDirs :
               LET v == VariantsOf(e)
               IN  {v.joined, v.rel, v.docsrel} \subseteq ToSet(asset_dirs)
        /\ NoDuplicates(asset_dirs)
        /\ \A x \in ToSet(asset_dirs) :
               \E e \in MatchingDirs :
                   LET v == VariantsOf(e)
                   IN  x \in {v.joined, v.parent, v.rel, v.docsrel}

\* the example of the specification: docs/ch1.assets and docs/sub/ch2.assets
C4_Witness ==
    /\ Found
    /\ root = Docs
    /\ MatchingDirs = {Under(DocsDir, Ch1Assets),
                       Under(Under(DocsDir, Sub), Ch2Assets)}
    /\ Under(Docs, Ch1Assets) \in ToSet(asset_dirs)
    /\ Under(Sub, Ch2Assets) \in ToSet(asset_dirs)
    /\ Under(Docs, Under(Sub, Ch2Assets)) \in ToSet(asset_dirs)

----------------------------------------------------------------------------
(* main *)

Msg(kind, text) == [kind |-> kind, path |-> text]

\* an exception nothing catches: the interpreter prints the traceback and
\* the process ends with status 1
Uncaught ==
    /\ stderr' = Append(stderr, Msg("traceback", <<>>))
    /\ exit_status' = 1
    /\ pc' = "exited"

\* sys.exit(1)
SysExit1 ==
    /\ exit_status' = 1
    /\ pc' = "exited"

\* line 75, load_config(): open() or yaml.safe_load() may raise
LoadConfig ==
    /\ pc = "load_config"
    /\ IF config.kind \in {"missing", "unparsable"}
       THEN Uncaught
       ELSE /\ pc' = "get_nav"
            /\ UNCHANGED <<stderr, exit_status>>
    /\ UNCHANGED <<fs, config, nav, md_files, md_files_prefixed, root,
                   asset_dirs, base_dirs, resource_path, cmd, tool_runs, result,
                   stdout, rmtree_calls, stack, extract_calls>>

\* config.get("nav", [])
NavOf(c) == IF c.has_nav THEN c.nav ELSE Wrap(List(<<>>), 0)

\* lines 76-77: config.get raises AttributeError unless config is a dict;
\* then extract_md_files(nav) is called
GetNav ==
    /\ pc = "get_nav"
    /\ IF config.kind # "mapping"
       THEN /\ Uncaught
            /\ UNCHANGED <<nav, stack>>
       ELSE /\ nav' = NavOf(config)
            /\ stack' = <<Frame(1, 0)>>
            /\ pc' = "extract"
            /\ UNCHANGED <<stderr, exit_status>>
    /\ UNCHANGED <<fs, config, md_files, md_files_prefixed, root, asset_dirs,
                   base_dirs, resource_path, cmd, tool_runs, result, stdout,
                   rmtree_calls, extract_calls>>

\* "[os.path.join('docs', md) for md in md_files if md]"
PrefixAllFiles(files) == [k \in 1..Len(files) |-> PathJoin(Docs, files[k])]
PrefixFiles(files) ==
    LET kept == SelectSeq(files, LAMBDA md : md # <<>>)
    IN  [k \in 1..Len(kept) |-> PathJoin(Docs, kept[k])]

\* line 78
Prefix ==
    /\ pc = "prefix"
    /\ md_files_prefixed' = PrefixFiles(md_files)
    /\ pc' = "find_asset_dirs"
    /\ UNCHANGED <<fs, config, nav, md_files, root, asset_dirs, base_dirs,
                   resource_path, cmd, tool_runs, result, stdout, stderr,
                   rmtree_calls, exit_status, stack, extract_calls>>

BaseDirs == <<CurDir, Docs, Assets, ParDir \o Sep \o Assets>>

\* lines 80-81
FindAssetDirs ==
    /\ pc = "find_asset_dirs"
    /\ base_dirs' = BaseDirs
    /\ root' = Docs
    /\ asset_dirs' \in find_asset_dirs(Docs)
    /\ pc' = "parent_assets"
    /\ UNCHANGED <<fs, config, nav, md_files, md_files_prefixed,
                   resource_path, cmd, tool_runs, result, stdout, stderr,
                   rmtree_calls, exit_status, stack, extract_calls>>

\* lines 82-84
ParentAssets ==
    /\ pc = "parent_assets"
    /\ LET parent_assets == PathJoin(ParDir, Assets)
       IN  base_dirs' = IF Exists(parent_assets)
                        THEN Append(base_dirs, parent_assets)
                        ELSE base_dirs
    /\ pc' = "resource_path"
    /\ UNCHANGED <<fs, config, nav, md_files, md_files_prefixed, root,
                   asset_dirs, resource_path, cmd, tool_runs, result, stdout,
                   stderr, rmtree_calls, exit_status, stack, extract_calls>>

\* "sorted(set(base_dirs + asset_dirs))"
RECURSIVE InsertSorted(_, _)
InsertSorted(x, q) ==
    IF q = <<>> THEN <<x>>
    ELSE IF StrLess(Head(q), x) THEN <<Head(q)>> \o InsertSorted(x, Tail(q))
    ELSE <<x>> \o q

RECURSIVE SortedList(_)
SortedList(q) == IF q = <<>> THEN <<>> ELSE InsertSorted(Head(q), SortedList(Tail(q)))

AllDirsKeepingDuplicates(base, found) == SortedList(base \o found)
AllDirs(base, found) == Sorted(ToSet(base \o found))

\* lines 86-87
ResourcePath ==
    /\ pc = "resource_path"
    /\ resource_path' = JoinWith(<<":">>, AllDirs(base_dirs, asset_dirs))
    /\ pc' = "build_cmd"
    /\ UNCHANGED <<fs, config, nav, md_files, md_files_prefixed, root,
                   asset_dirs, base_dirs, cmd, tool_runs, result, stdout, stderr,
                   rmtree_calls, exit_status, stack, extract_calls>>

OptionsBeforeResourcePath ==
    <<<<"p", "a", "n", "d", "o", "c">>,
      <<"-", "o">>,
      <<"h", "e", "l", "l", "o", "_", "a", "l", "g", "o", ".", "e", "p",
       "u", "b">>,
      <<"-", "-", "t", "o", "c">>,
      <<"-", "-", "t", "o", "c", "-", "d", "e", "p", "t", "h", "=",
       "2">>,
      <<"-", "-", "m", "e", "t", "a", "d", "a", "t", "a">>,
      <<"t", "i", "t", "l", "e", "=", "H", "e", "l", "l", "o", " ", "A",
       "l", "g", "o">>,
      <<"-", "-", "r", "e", "s", "o", "u", "r", "c", "e", "-", "p", "a",
       "t", "h">>>>

OptionsAfterResourcePath ==
    <<<<"-", "-", "m", "a", "t", "h", "j", "a", "x">>,
      <<"-", "-", "v", "e", "r", "b", "o", "s", "e">>,
      <<"-", "-", "e", "x", "t", "r", "a", "c", "t", "-", "m", "e", "d",
       "i", "a", "=", "e", "x", "t", "r", "a", "c", "t", "e", "d", "-",
       "m", "e", "d", "i", "a">>,
      <<"-", "-", "w", "r", "a", "p", "=", "n", "o", "n", "e">>,
      <<"-", "t">>,
      <<"e", "p", "u", "b", "3">>,
      <<"-", "-", "h", "i", "g", "h", "l", "i", "g", "h", "t", "-", "s",
       "t", "y", "l", "e", "=", "p", "y", "g", "m", "e", "n", "t", "s">>,
      <<"-", "f">>,
      <<"m", "a", "r", "k", "d", "o", "w", "n", "+", "f", "e", "n", "c",
       "e", "d", "_", "c", "o", "d", "e", "_", "b", "l", "o", "c", "k",
       "s", "+", "f", "e", "n", "c", "e", "d", "_", "c", "o", "d", "e",
       "_", "a", "t", "t", "r", "i", "b", "u", "t", "e", "s">>,
      <<"-", "-", "e", "p", "u", "b", "-", "c", "o", "v", "e", "r", "-",
       "i", "m", "a", "g", "e", "=", ".", "/", "d", "o", "c", "s", "/",
       "a", "s", "s", "e", "t", "s", "/", "c", "o", "v", "e", "r", "s",
       "/", "c", "h", "a", "p", "t", "e", "r", "_", "h", "e", "l", "l",
       "o", "_", "a", "l", "g", "o", ".", "j", "p", "g">>>>

\* lines 89-109
Command(resources, inputs) ==
    OptionsBeforeResourcePath \o <<resources>> \o OptionsAfterResourcePath
    \o inputs

BuildCmd ==
    /\ pc = "build_cmd"
    /\ cmd' = Command(resource_path, md_files_prefixed)
    /\ pc' = "run"
    /\ UNCHANGED <<fs, config, nav, md_files, md_files_prefixed, root,
                   asset_dirs, base_dirs, resource_path, tool_runs, result,
                   stdout, stderr, rmtree_calls, exit_status, stack,
                   extract_calls>>

MediaDir ==
    <<"e", "x", "t", "r", "a", "c", "t", "e", "d", "-", "m", "e", "d", "i", "a">>

\* the largest exit status of the external tool
MaxReturnCode == 2

OutText == <<"o", "u", "t">>
ErrText == <<"e", "r", "r">>

\* What subprocess.run(cmd, capture_output=True, text=True, timeout=300)
\* may do: raise OSError because the tool cannot be started, raise
\* TimeoutExpired with the output captured so far, or return the exit
\* status and the captured output.  The tool may have created the
\* media-extraction directory.
ToolResults ==
    [outcome : {"not_started"}, returncode : {0}, stdout : {<<>>},
     stderr : {<<>>}, media_after : {FALSE}]
    \cup [outcome : {"timeout"}, returncode : {0}, stdout : {<<>>, OutText},
          stderr : {<<>>, ErrText}, media_after : BOOLEAN]
    \cup [outcome : {"completed"}, returncode : 0..MaxReturnCode,
          stdout : {<<>>, OutText}, stderr : {<<>>, ErrText},
          media_after : BOOLEAN]

\* lines 111-118
Run ==
    /\ pc = "run"
    /\ tool_runs' = tool_runs + 1
    /\ \E r \in ToolResults :
        /\ result' = [r EXCEPT !.media_after = @ \/ AbsPath(MediaDir) \in fs.dirs]
        /\ fs' = IF r.media_after
                 THEN [fs EXCEPT !.dirs = @ \cup {AbsPath(MediaDir)}]
                 ELSE fs
        /\ IF r.outcome = "not_started"
           THEN Uncaught
           ELSE /\ pc' = IF r.outcome = "timeout" THEN "timeout_handler"
                         ELSE "print_stdout"
                /\ UNCHANGED <<stderr, exit_status>>
    /\ UNCHANGED <<config, nav, md_files, md_files_prefixed, root, asset_dirs,
                   base_dirs, resource_path, cmd, stdout, rmtree_calls, stack,
                   extract_calls>>

\* lines 119-123
TimeoutHandlerFallingThrough ==
    /\ stderr' = stderr \o <<Msg("timeout", <<>>), Msg("timeout_stderr", result.stderr)>>
    /\ stdout' = Append(stdout, Msg("timeout_stdout", result.stdout))
    /\ pc' = "print_stdout"
    /\ UNCHANGED exit_status

TimeoutHandlerBody ==
    /\ stderr' = stderr \o <<Msg("timeout", <<>>), Msg("timeout_stderr", result.stderr)>>
    /\ stdout' = Append(stdout, Msg("timeout_stdout", result.stdout))
    /\ SysExit1

TimeoutHandler ==
    /\ pc = "timeout_handler"
    /\ TimeoutHandlerBody
    /\ UNCHANGED <<fs, config, nav, md_files, md_files_prefixed, root,
                   asset_dirs, base_dirs, resource_path, cmd, tool_runs, result,
                   rmtree_calls, stack, extract_calls>>

\* "print(result.stdout, flush=True)"
RelayStdoutIfAny(out, text) ==
    IF text # <<>> THEN Append(out, Msg("tool_stdout", text)) ELSE out
RelayStdout(out, text) == Append(out, Msg("tool_stdout", text))

\* line 125
PrintStdout ==
    /\ pc = "print_stdout"
    /\ stdout' = RelayStdout(stdout, result.stdout)
    /\ pc' = "print_stderr"
    /\ UNCHANGED <<fs, config, nav, md_files, md_files_prefixed, root,
                   asset_dirs, base_dirs, resource_path, cmd, tool_runs, result,
                   stderr, rmtree_calls, exit_status, stack, extract_calls>>

\* lines 126-127
PrintStderr ==
    /\ pc = "print_stderr"
    /\ stderr' = IF result.stderr # <<>>
                 THEN Append(stderr, Msg("tool_stderr", result.stderr))
                 ELSE stderr
    /\ pc' = "check_returncode"
    /\ UNCHANGED <<fs, config, nav, md_files, md_files_prefixed, root,
                   asset_dirs, base_dirs, resource_path, cmd, tool_runs, result,
                   stdout, rmtree_calls, exit_status, stack, extract_calls>>

\* "if result.returncode != 0"
ToolFailedOnlyOnOne(returncode) == returncode = 1
ToolFailed(returncode) == returncode # 0

\* lines 128-134
CheckReturnCode ==
    /\ pc = "check_returncode"
    /\ IF ToolFailed(result.returncode)
       THEN /\ stderr' = Append(stderr, Msg("failed", <<result.returncode>>))
            /\ SysExit1
       ELSE /\ pc' = "cleanup"
            /\ UNCHANGED <<stderr, exit_status>>
    /\ UNCHANGED <<fs, config, nav, md_files, md_files_prefixed, root,
                   asset_dirs, base_dirs, resource_path, cmd, tool_runs, result,
                   stdout, rmtree_calls, stack, extract_calls>>

\* the filesystem without directory d and everything under it
RemoveTree(f, d) ==
    [dirs |-> {e \in f.dirs : e # d /\ ~StartsWith(e, d \o Sep)},
     files |-> {e \in f.files : e # d /\ ~StartsWith(e, d \o Sep)}]

\* "if os.path.exists(media_dir)"
CleanupAlways(media_dir) == TRUE
CleanupNeeded(media_dir) == Exists(media_dir)

\* lines 136-142, and the return of main: the process ends with status 0
CleanupSkipped ==
    /\ pc = "cleanup"
    /\ ~CleanupNeeded(MediaDir)
    /\ UNCHANGED <<fs, stdout, stderr, rmtree_calls>>

\* shutil.rmtree succeeds
CleanupDone ==
    /\ pc = "cleanup"
    /\ CleanupNeeded(MediaDir)
    /\ rmtree_calls' = rmtree_calls + 1
    /\ fs' = RemoveTree(fs, AbsPath(MediaDir))
    /\ stdout' = Append(stdout, Msg("cleaned", MediaDir))
    /\ UNCHANGED stderr

\* shutil.rmtree raises: the error is printed, the directory is still there
CleanupFailed ==
    /\ pc = "cleanup"
    /\ CleanupNeeded(MediaDir)
    /\ rmtree_calls' = rmtree_calls + 1
    /\ stderr' = Append(stderr, Msg("cleanup_error", MediaDir))
    /\ UNCHANGED <<fs, stdout>>

Cleanup ==
    /\ CleanupSkipped \/ CleanupDone \/ CleanupFailed
    /\ exit_status' = 0
    /\ pc' = "exited"
    /\ UNCHANGED <<config, nav, md_files, md_files_prefixed, root, asset_dirs,
                   base_dirs, resource_path, cmd, tool_runs, result, stack,
                   extract_calls>>

----------------------------------------------------------------------------
(* Inputs of main *)

\* what is under docs/: nothing, ch1.assets, or sub/ch2.assets
MainDocsTrees ==
    {{},
     {Under(DocsDir, Ch1Assets)},
     {Under(DocsDir, Sub), Under(Under(DocsDir, Sub), Ch2Assets)}}

\* docs/ holds intro.md and a.md but not b.md, and /x.md exists; the sibling
\* ../assets and the media-extraction directory may exist
MainFsInputs ==
    {MkFs({EnDir, DocsDir} \cup T \cup P \cup M,
          {Under(DocsDir, AMd), Under(DocsDir, IntroMd), AbsXMd}) :
         T \in MainDocsTrees,
         P \in {{}, {Sep \o Assets}},
         M \in {{}, {AbsPath(MediaDir)}}}

\* the example of the specification, a repeated leaf, an empty-string
\* leaf, an absolute and a missing leaf in a mapping, nav: null, and a file
\* inside 101 nested lists
MainNavInputs ==
    {Heap(ExampleNav),
     Wrap(Str(AMd), MaxDepth + 1),
     Heap(List(<<Str(AMd), Str(AMd)>>)),
     Heap(List(<<Str(<<>>), Str(AMd)>>)),
     Heap(Dict(Keys(2), <<Str(AbsXMd), Str(BMd)>>)),
     Heap(Other)}

\* mkdocs.yml: missing, not YAML, YAML that is not a mapping, a mapping
\* without "nav", a mapping with "nav"
ConfigInputs ==
    {[kind |-> k, has_nav |-> FALSE, nav |-> <<>>] :
         k \in {"missing", "unparsable", "not_mapping", "mapping"}}
    \cup {[kind |-> "mapping", has_nav |-> TRUE, nav |-> n] : n \in MainNavInputs}

Init ==
    /\ pc = "load_config"
    /\ fs \in MainFsInputs
    /\ config \in ConfigInputs
    /\ nav = <<>>
    /\ stack = <<>>
    /\ md_files = <<>>
    /\ md_files_prefixed = <<>>
    /\ root = <<>>
    /\ asset_dirs = <<>>
    /\ base_dirs = <<>>
    /\ resource_path = <<>>
    /\ cmd = <<>>
    /\ tool_runs = 0
    /\ result = NoResult
    /\ stdout = <<>>
    /\ stderr = <<>>
    /\ rmtree_calls = 0
    /\ exit_status = 0
    /\ extract_calls = 0

Next ==
    \/ LoadConfig
    \/ GetNav
    \/ ExtractDepthExceeded
    \/ ExtractString
    \/ ExtractBegin
    \/ ExtractIterate
    \/ ExtractFinish
    \/ Prefix
    \/ FindAssetDirs
    \/ ParentAssets
    \/ ResourcePath
    \/ BuildCmd
    \/ Run
    \/ TimeoutHandler
    \/ PrintStdout
    \/ PrintStderr
    \/ CheckReturnCode
    \/ Cleanup

Spec == Init /\ [][Next]_vars

----------------------------------------------------------------------------
(* Properties of main *)

Exited == pc = "exited"
Printed(stream, kind) == \E k \in 1..Len(stream) : stream[k].kind = kind
MediaDirExists == AbsPath(MediaDir) \in fs.dirs

\* C5: the external tool is invoked at most once; after a timeout the
\* program prints the timeout message to stderr and exits with status 1,
\* with no second invocation and no later step (no relay of the output, no
\* exit-status check, no cleanup).
C5_TimeoutIsFatal ==
    /\ tool_runs <= 1
    /\ result.outcome = "timeout" =>
        /\ pc \in {"timeout_handler", "exited"}
        /\ tool_runs = 1
        /\ rmtree_calls = 0
        /\ ~Printed(stdout, "tool_stdout")
        /\ ~Printed(stderr, "failed")
        /\ Exited => exit_status = 1 /\ Printed(stderr, "timeout")

C5_Witness ==
    /\ Exited
    /\ result.outcome = "timeout"
    /\ exit_status = 1
    /\ Printed(stderr, "timeout")

\* C6 as claimed: when the program exits with status 0, the
\* media-extraction directory does not exist.
C6_AsClaimed == (Exited /\ exit_status = 0) => ~MediaDirExists

\* C6, amended: when the tool completed with status 0, the
\* media-extraction directory, if it exists after the tool ran, is removed
\* by one call of shutil.rmtree; if that call succeeds the directory does
\* not exist when the program exits with status 0, and if it fails the
\* failure is printed to stderr and the program exits with status 0 all the
\* same, the directory still there.
C6_CleanupBestEffort ==
    (Exited /\ exit_status = 0) =>
        /\ result.outcome = "completed" /\ result.returncode = 0
        /\ rmtree_calls = IF result.media_after THEN 1 ELSE 0
        /\ MediaDirExists <=> Printed(stderr, "cleanup_error")
        /\ (result.media_after /\ ~MediaDirExists) <=> Printed(stdout, "cleaned")

C6_Witness ==
    /\ Exited
    /\ exit_status = 0
    /\ result.media_after
    /\ ~MediaDirExists
    /\ Printed(stdout, "cleaned")

\* C7 as claimed: the exit status is 1 exactly when the configuration file is
\* missing or unparsable, the tool timed out or the tool ended with a
\* non-zero status, and 0 in every other run.
C7_AsClaimed ==
    Exited =>
        /\ exit_status \in {0, 1}
        /\ exit_status = 1 <=>
               \/ config.kind \in {"missing", "unparsable"}
               \/ result.outcome = "timeout"
               \/ result.outcome = "completed" /\ result.returncode # 0

\* C7, amended: the exit status is 1 exactly when the configuration file is
\* missing, unparsable or not a mapping, the tool could not be started, the
\* tool timed out or the tool ended with a non-zero status, and 0 in every
\* other run; a failed cleanup, a missing "nav" key and missing Markdown
\* files do not change it.
C7_ExitStatus ==
    Exited =>
        /\ exit_status \in {0, 1}
        /\ exit_status = 1 <=>
               \/ config.kind \in {"missing", "unparsable", "not_mapping"}
               \/ result.outcome \in {"not_started", "timeout"}
               \/ result.outcome = "completed" /\ result.returncode # 0

\* a run with a missing Markdown file and a failed cleanup ends with status 0
C7_Witness ==
    /\ Exited
    /\ exit_status = 0
    /\ Printed(stderr, "cleanup_error")
    /\ Printed(stderr, "missing")

\* s.split(c)
RECURSIVE SplitOn(_, _)
SplitOn(s, c) ==
    IF \A i \in 1..Len(s) : s[i] # c THEN <<s>>
    ELSE LET k == CHOOSE i \in 1..Len(s) :
                      s[i] = c /\ \A j \in 1..(i - 1) : s[j] # c
         IN  <<SubSeq(s, 1, k - 1)>> \o SplitOn(SubSeq(s, k + 1, Len(s)), c)

\* the directories of the resource path: the base directories, the
\* variants of the ".assets" directories under docs/, and ../assets
ResourceDirs ==
    {CurDir, Docs, Assets, ParDir \o Sep \o Assets}
    \cup UNION {LET v == VariantsOf(e)
                IN  {v.joined, v.parent, v.rel, v.docsrel} : e \in MatchingDirs}
    \cup (IF Sep \o Assets \in fs.dirs THEN {ParDir \o Sep \o Assets} ELSE {})

\* C8: the resource path is the colon-joined list of the directories above,
\* in strictly increasing order (sorted, each directory once, the base
\* directories too, whether or not ../assets exists), whatever the order in
\* which find_asset_dirs returned them.
C8_ResourcePath ==
    resource_path # <<>> =>
        LET parts == SplitOn(resource_path, ":")
        IN  /\ ToSet(parts) = ResourceDirs
            /\ \A i \in 1..(Len(parts) - 1) : StrLess(parts[i], parts[i + 1])
            /\ resource_path = JoinWith(<<":">>, parts)

\* ../assets exists, and the asset directories were not returned in order
C8_Witness ==
    /\ resource_path # <<>>
    /\ Sep \o Assets \in fs.dirs
    /\ Len(asset_dirs) = 3
    /\ StrLess(asset_dirs[2], asset_dirs[1])

NumberOfOptions == Len(OptionsBeforeResourcePath) + 1 + Len(OptionsAfterResourcePath)
InputFiles == SubSeq(cmd, NumberOfOptions + 1, Len(cmd))

\* C9 as claimed: the input-file arguments are the elements of
\* extract_md_files(nav), in order, each prefixed with "docs".
C9_AsClaimed ==
    cmd # <<>> =>
        InputFiles = [k \in 1..Len(md_files) |-> Docs \o Sep \o md_files[k]]

\* C9, amended: the command is the fixed options, with the resource path
\* after "--resource-path", followed by the non-empty elements of
\* extract_md_files(nav), in the same order and with the same
\* multiplicity, each joined to "docs" (prefixed with "docs/" unless it is
\* absolute).
C9_CommandLine ==
    cmd # <<>> =>
        LET kept == SelectSeq(md_files, LAMBDA md : Len(md) > 0)
        IN  /\ SubSeq(cmd, 1, NumberOfOptions) =
                   OptionsBeforeResourcePath \o <<resource_path>>
                   \o OptionsAfterResourcePath
            /\ InputFiles = [k \in 1..Len(kept) |-> LeafPath(kept[k])]

\* the navigation ["", "a.md"]: the empty string is returned by
\* extract_md_files (docs/ exists) and is not passed to the tool
C9_Witness ==
    /\ cmd # <<>>
    /\ md_files = <<<<>>, AMd>>
    /\ InputFiles = <<Under(Docs, AMd)>>

\* C10: a run that ends with status 1 never called shutil.rmtree, and the
\* media-extraction directory is as the tool left it; shutil.rmtree is only
\* ever called after the tool completed with status 0; and the captured
\* stdout of a completed run has been printed when the exit status is
\* checked.
C10_CleanupOnlyOnSuccess ==
    /\ (Exited /\ exit_status = 1) =>
        /\ rmtree_calls = 0
        /\ MediaDirExists <=> (result.media_after \/ (tool_runs = 0 /\ MediaDirExists))
    /\ rmtree_calls > 0 => result.outcome = "completed" /\ result.returncode = 0
    /\ (pc \in {"check_returncode", "cleanup"} \/ (Exited /\ result.outcome = "completed")) =>
        /\ stdout # <<>>
        /\ stdout[1] = Msg("tool_stdout", result.stdout)

\* the tool ended with a non-zero status and left the directory behind
C10_Witness ==
    /\ Exited
    /\ exit_status = 1
    /\ result.outcome = "completed"
    /\ result.returncode # 0
    /\ MediaDirExists
    /\ stdout = <<Msg("tool_stdout", result.stdout)>>

====
